---- MODULE Spec2Model ----
(***************************************************************************)
(* A model of src/main.py, the start.gg event DQ counter: the input parser *)
(* (parse_event_input), the GraphQL client (gql), the identifier resolver  *)
(* (resolve_event_id), the pagination loop (fetch_counts) and the          *)
(* button handler that sequences them and renders the result.              *)
(*                                                                         *)
(* Strings are sequences of one-character strings, so that strip, the      *)
(* substring tests and index() are computed as Python computes them.       *)
(* JSON values of the service's responses are tagged records, so that      *)
(* Python's truthiness (`x or 0`, `if n.get(...)`) is computed on them.    *)
(***************************************************************************)
EXTENDS Integers, Sequences, FiniteSets, TLC

VARIABLES
    pc,             \* position of the script: idle, resolve, loop, stopped, error, rendered
    token,          \* the sidebar's API token field
    event_input,    \* the event text field
    parsed, err,    \* parse_event_input's pair
    event_id, ev_name, ev_slug,          \* resolve_event_id's triple
    page, total_pages, total_players,    \* fetch_counts' locals
    dq_count, dq_rows, event_name, event_slug,
    result,         \* fetch_counts' return value, None until it returns
    ui,             \* what the page shows: error, metrics, table, csv, info
    requests,       \* history: the requests posted to the service in this run
    first_resp,     \* history: event and pageInfo of the response to page 1
    last_pageInfo,  \* history: pageInfo of the latest entrants response
    tp_log,         \* history: totalPages of every entrants response, in order
    resolve_reply,  \* history: the service's reply to the resolve-by-slug call
    failed_at,      \* history: how many requests had been posted when the service
                    \* answered with an HTTP error status or an errors list, else 0
    true_seen       \* history: how many fetched nodes had isDisqualified = true

vars == <<pc, token, event_input, parsed, err, event_id, ev_name, ev_slug,
          page, total_pages, total_players, dq_count, dq_rows, event_name,
          event_slug, result, ui, requests, first_resp, last_pageInfo, tp_log,
          resolve_reply, failed_at, true_seen>>

-----------------------------------------------------------------------------
(* Bounds of the model *)

\* the largest totalPages the modelled service reports
MaxTotalPages == 3

\* the most path segments of a modelled event URL
MaxSegs == 3

-----------------------------------------------------------------------------
(* Strings *)

Digits == {"0", "1", "2", "3", "4", "5", "6", "7", "8", "9"}

Letters == {"a", "b", "c", "d", "e", "f", "g", "h", "i", "j", "k", "l", "m",
            "n", "o", "p", "q", "r", "s", "t", "u", "v", "w", "x", "y", "z",
            "A", "B", "C", "D", "E", "F", "G", "H", "I", "J", "K", "L", "M",
            "N", "O", "P", "Q", "R", "S", "T", "U", "V", "W", "X", "Y", "Z"}

DigitVal(c) ==
    CASE c = "0" -> 0 [] c = "1" -> 1 [] c = "2" -> 2 [] c = "3" -> 3
      [] c = "4" -> 4 [] c = "5" -> 5 [] c = "6" -> 6 [] c = "7" -> 7
      [] c = "8" -> 8 [] c = "9" -> 9

\* s[i:] with a 0-based i, as Python slices
From(s, i) == SubSeq(s, i + 1, Len(s))

\* s[:i] with a 0-based i
Upto(s, i) == SubSeq(s, 1, i)

\* s.startswith(p)
StartsWith(s, p) == Len(p) <= Len(s) /\ SubSeq(s, 1, Len(p)) = p

\* s.find(p): the 0-based index of the first occurrence of p in s, or -1
Find(s, p) ==
    LET hits == {i \in 0..(Len(s) - Len(p)) : SubSeq(s, i + 1, i + Len(p)) = p}
    IN  IF hits = {} THEN -1 ELSE CHOOSE i \in hits : \A j \in hits : i <= j

\* p in s
Contains(s, p) == Find(s, p) >= 0

\* s.strip(): whitespace removed at both ends
RECURSIVE LStrip(_, _)
LStrip(s, cs) == IF s # <<>> /\ Head(s) \in cs THEN LStrip(Tail(s), cs) ELSE s

RECURSIVE RStrip(_, _)
RStrip(s, cs) ==
    IF s # <<>> /\ s[Len(s)] \in cs THEN RStrip(SubSeq(s, 1, Len(s) - 1), cs) ELSE s

Strip(s, cs) == RStrip(LStrip(s, cs), cs)

Whitespace == {" "}

\* int(s) of a string of digits
RECURSIVE IntOf(_)
IntOf(s) == IF s = <<>> THEN 0 ELSE 10 * IntOf(SubSeq(s, 1, Len(s) - 1)) + DigitVal(s[Len(s)])

\* re.fullmatch(r"\d+", s)
AllDigits(s) == s # <<>> /\ \A i \in 1..Len(s) : s[i] \in Digits

\* sep.join(parts)
RECURSIVE Join(_, _)
Join(parts, sep) ==
    IF parts = <<>> THEN <<>>
    ELSE IF Len(parts) = 1 THEN parts[1]
    ELSE parts[1] \o sep \o Join(Tail(parts), sep)

\* s.split(sep) for a one-character sep
RECURSIVE Split(_, _)
Split(s, sep) ==
    LET i == Find(s, <<sep>>)
    IN  IF i < 0 THEN <<s>> ELSE <<Upto(s, i)>> \o Split(From(s, i + 1), sep)

-----------------------------------------------------------------------------
(* urlparse(s).path, as urllib.parse.urlsplit computes it: a leading scheme *)
(* up to ':' is removed, then a '//' network location up to the next '/',   *)
(* '?' or '#', then the fragment from '#', then the query from '?'.         *)

SchemeChars == Letters \cup Digits \cup {"+", "-", "."}

AfterScheme(s) ==
    LET i == Find(s, <<":">>)
    IN  IF i > 0 /\ s[1] \in Letters /\ (\A k \in 1..i : s[k] \in SchemeChars)
        THEN From(s, i + 1) ELSE s

AfterNetloc(s) ==
    IF StartsWith(s, <<"/", "/">>)
    THEN LET ends == {i \in 2..(Len(s) - 1) : s[i + 1] \in {"/", "?", "#"}}
             e    == IF ends = {} THEN Len(s)
                     ELSE CHOOSE i \in ends : \A j \in ends : i <= j
         IN  From(s, e)
    ELSE s

CutAt(s, c) == LET i == Find(s, <<c>>) IN IF i < 0 THEN s ELSE Upto(s, i)

UrlPath(s) == CutAt(CutAt(AfterNetloc(AfterScheme(s)), "#"), "?")

-----------------------------------------------------------------------------
(* parse_event_input *)

TOURNAMENT == <<"t", "o", "u", "r", "n", "a", "m", "e", "n", "t">>
EVENT == <<"e", "v", "e", "n", "t">>

InputError == "Enter a numeric Event ID or a valid Event URL."

NoRef == [kind |-> "none"]
IdRef(n) == [kind |-> "id", id |-> n]
SlugRef(s) == [kind |-> "slug", slug |-> s]

\* the test of line 35: "/event/" in f"/{path}/" and "tournament/" in f"/{path}/"
LooksLikeEventPath(path) ==
    LET padded == <<"/">> \o path \o <<"/">>
    IN  /\ Contains(padded, <<"/">> \o EVENT \o <<"/">>)
        /\ Contains(padded, TOURNAMENT \o <<"/">>)

\* line 37: path[path.index("tournament"):]
SlugOf(path) == From(path, Find(path, TOURNAMENT))

parse_event_input(s0) ==
    LET s    == Strip(s0, Whitespace)
        path == Strip(UrlPath(s), {"/"})
    IN  IF AllDigits(s) THEN [parsed |-> IdRef(IntOf(s)), err |-> "None"]
        ELSE IF LooksLikeEventPath(path)
             THEN [parsed |-> SlugRef(SlugOf(path)), err |-> "None"]
             ELSE [parsed |-> NoRef, err |-> InputError]

-----------------------------------------------------------------------------
(* JSON values, and Python's view of them *)

JNull == [t |-> "null"]
JAbsent == [t |-> "absent"]      \* the key is not in the object
JBool(b) == [t |-> "bool", v |-> b]
JInt(n) == [t |-> "int", v |-> n]
JStr(s) == [t |-> "str", v |-> s]
JList(l) == [t |-> "list", v |-> l]

\* d.get(key): None for a missing key
Get(v) == IF v.t = "absent" THEN JNull ELSE v

\* bool(v)
Truthy(v) ==
    CASE v.t \in {"null", "absent"} -> FALSE
      [] v.t = "bool" -> v.v
      [] v.t = "int" -> v.v # 0
      [] v.t \in {"str", "list"} -> v.v # <<>>
      [] v.t = "object" -> TRUE      \* the objects of the responses have keys

\* v or d
Or(v, d) == IF Truthy(v) THEN v ELSE d

\* int(v) of a JSON number or a JSON string of digits
PyInt(v) == IF v.t = "int" THEN v.v ELSE IntOf(v.v)

-----------------------------------------------------------------------------
(* gql: the one boundary to the service *)

\* per_page=500, the default of fetch_counts
PerPage == 500

ResolveRequest(slug) == [query |-> "GetEventId", variables |-> [slug |-> slug]]

EntrantsRequest(id, p, n) ==
    [query |-> "EventEntrants", variables |-> [eventId |-> id, page |-> p, perPage |-> n]]

\* gql without lines 50-51: an errors list in the body is not looked at
gql_IgnoresErrors(resp) ==
    IF ~resp.http_ok THEN [raised |-> "HTTPError", data |-> JNull]
    ELSE [raised |-> "None", data |-> resp.data]

\* A response is [http_ok, errors, data]: the transport status, whether the
\* body holds an "errors" key, and the body's "data".
gql(resp) ==
    IF ~resp.http_ok THEN [raised |-> "HTTPError", data |-> JNull]
    ELSE IF resp.errors THEN [raised |-> "RuntimeError", data |-> JNull]
    ELSE [raised |-> "None", data |-> resp.data]

-----------------------------------------------------------------------------
(* The rows fetch_counts builds *)

SEP == <<" ", "|", " ">>

\* lines 89-91: one participant's tag
TagOf(p) ==
    LET tag  == Or(Get(p.gamerTag), JStr(<<>>)).v
        pref == Get(p.prefix)
    IN  Strip((IF Truthy(pref) THEN pref.v \o SEP ELSE <<>>) \o tag, Whitespace)

RECURSIVE TagsOf(_)
TagsOf(ps) == IF ps = <<>> THEN <<>> ELSE <<TagOf(Head(ps))>> \o TagsOf(Tail(ps))

\* lines 92-96: the row of a disqualified entrant
RowOf(n) ==
    LET ps   == Or(Get(n.participants), JList(<<>>)).v
        tags == SelectSeq(TagsOf(ps), LAMBDA t : t # <<>>)
    IN  [name |-> Get(n.name),
         participants |-> Join(tags, <<",", " ">>),
         id |-> Get(n.id)]

\* line 86: if n.get("isDisqualified")
IsDQ(n) == Truthy(Get(n.isDisqualified))

\* lines 85-97: the rows one page adds
RECURSIVE PageRows(_)
PageRows(nodes) ==
    IF nodes = <<>> THEN <<>>
    ELSE (IF IsDQ(Head(nodes)) THEN <<RowOf(Head(nodes))>> ELSE <<>>)
         \o PageRows(Tail(nodes))

-----------------------------------------------------------------------------
(* The inputs and the service's responses the model draws from *)

Str_a == <<"a">>
Str_b == <<"b">>
HTTPS_H == <<"h", "t", "t", "p", "s", ":", "/", "/", "h", "/">>

\* the token field: empty, or a token
Tokens == {<<>>, <<"t", "k">>}

\* the event field of a run: an id, an event URL, a URL of another page, nothing
RunInputs ==
    { <<" ", "4", "2">>,
      HTTPS_H \o TOURNAMENT \o <<"/">> \o Str_a \o <<"/">> \o EVENT \o <<"/">> \o Str_b,
      HTTPS_H \o Str_a,
      <<>> }

HttpFail == [http_ok |-> FALSE, errors |-> FALSE, data |-> JNull]
AppError(d) == [http_ok |-> TRUE, errors |-> TRUE, data |-> d]
Data(d) == [http_ok |-> TRUE, errors |-> FALSE, data |-> d]

\* the service answered with a non-success status or with an errors list
IsFailure(resp) == ~resp.http_ok \/ resp.errors

\* Query B's replies: no event, or an event whose id is a number or a string
ResolvedEvents ==
    { [t |-> "object", id |-> JStr(<<"9", "9", "9">>), name |-> JStr(<<"X">>), slug |-> JStr(<<"s", "1">>)],
      [t |-> "object", id |-> JInt(7), name |-> JStr(<<"Y">>), slug |-> JStr(<<"s", "2">>)] }

ResolveResponses ==
    {HttpFail, AppError([event |-> JNull]), Data([event |-> JNull])}
        \cup {Data([event |-> e]) : e \in ResolvedEvents}

Participant(tag, prefix) == [gamerTag |-> tag, prefix |-> prefix]
Node(id, name, flag, parts) ==
    [id |-> JInt(id), name |-> JStr(name), isDisqualified |-> flag, participants |-> parts]

\* Query A's node lists: none, or five entrants whose flag is false, true,
\* absent, a number and null
NodeLists ==
    { <<>>,
      << Node(1, <<"A">>, JBool(FALSE), JNull),
         Node(2, <<"X">>, JBool(TRUE),
              JList(<<Participant(JStr(<<"F", "o", "o">>), JNull)>>)),
         Node(3, <<"C">>, JAbsent, JAbsent),
         Node(4, <<"D">>, JInt(1),
              JList(<< Participant(JStr(<<"B", "a", "r">>), JStr(<<"A", "B">>)),
                       Participant(JNull, JStr(<<>>)) >>)),
         Node(5, <<"E">>, JNull, JList(<<>>)) >> }

\* Query A's event name and slug
EventMetas ==
    { [name |-> JNull, slug |-> JStr(<<"s", "0">>)],
      [name |-> JStr(<<"X">>), slug |-> JStr(<<"s", "1">>)],
      [name |-> JStr(<<"Y">>), slug |-> JStr(<<"s", "2">>)] }

Totals == {JNull, JInt(3)}
TotalPagesValues == {JNull, JInt(0)} \cup {JInt(n) : n \in 1..MaxTotalPages}

EventData(m, total, tp, nodes) ==
    [t |-> "object", name |-> m.name, slug |-> m.slug,
     entrants |-> [pageInfo |-> [total |-> total, totalPages |-> tp], nodes |-> nodes]]

EntrantsEvents ==
    {EventData(m, total, tp, nodes) :
        m \in EventMetas, total \in Totals, tp \in TotalPagesValues, nodes \in NodeLists}

AnEvent == EventData([name |-> JStr(<<"X">>), slug |-> JStr(<<"s", "1">>)],
                     JInt(3), JInt(MaxTotalPages), <<>>)

EntrantsResponses ==
    {HttpFail, AppError([event |-> AnEvent]), Data([event |-> JNull])}
        \cup {Data([event |-> e]) : e \in EntrantsEvents}

-----------------------------------------------------------------------------
(* The page *)

NoResult == [returned |-> FALSE]
NoResp == [seen |-> FALSE]
NoUI == [error |-> "None", metrics |-> <<>>, subheader |-> JNull, caption |-> <<>>,
         table |-> <<>>, csv |-> <<>>, info |-> FALSE]

\* st.error(...), nothing else on the page
ErrorUI(msg) == [NoUI EXCEPT !.error = msg]

CsvHeader == <<"Entrant Name", "Participants", "Entrant ID">>

RECURSIVE CsvRows(_)
CsvRows(rows) ==
    IF rows = <<>> THEN <<>>
    ELSE <<<<Head(rows).name, Head(rows).participants, Head(rows).id>>>> \o CsvRows(Tail(rows))

\* lines 143-163: the metrics, the caption, and the table with its export or the notice
Render(r, name, slug) ==
    [error |-> "None",
     metrics |-> <<r.total_players, r.dq_count>>,
     subheader |-> Or(Or(r.event_name, name), JStr(<<"E", "v", "e", "n", "t">>)),
     caption |-> <<r.event_id, Or(r.event_slug, slug)>>,
     table |-> r.dq_rows,
     csv |-> IF r.dq_rows # <<>> THEN <<CsvHeader>> \o CsvRows(r.dq_rows) ELSE <<>>,
     info |-> r.dq_rows = <<>>]

\* lines 165-168: what the handler shows for an exception
Caught(exc) == IF exc = "HTTPError" THEN "HTTP error" ELSE exc

Init ==
    /\ pc = "idle"
    /\ token = <<>>
    /\ event_input = <<>>
    /\ parsed = NoRef
    /\ err = "None"
    /\ event_id = 0
    /\ ev_name = JNull
    /\ ev_slug = JNull
    /\ page = 1
    /\ total_pages = 1
    /\ total_players = 0
    /\ dq_count = 0
    /\ dq_rows = <<>>
    /\ event_name = JNull
    /\ event_slug = JNull
    /\ result = NoResult
    /\ ui = NoUI
    /\ requests = <<>>
    /\ first_resp = NoResp
    /\ last_pageInfo = NoResp
    /\ tp_log = <<>>
    /\ resolve_reply = NoResp
    /\ failed_at = 0
    /\ true_seen = 0

fetch_locals == <<page, total_pages, total_players, dq_count, dq_rows, event_name, event_slug>>
resolved == <<event_id, ev_name, ev_slug>>
history == <<first_resp, last_pageInfo, tp_log, true_seen>>

-----------------------------------------------------------------------------
(* The steps of fetch_counts' loop body *)

\* the loop test off by one: while page < total_pages
LoopCond_Strict(p, tp) == p < tp

\* line 72: while page <= total_pages
LoopCond(p, tp) == p <= tp

\* name and slug taken from every response
NextEvent_EveryPage(name, slug, ev) == <<Get(ev.name), Get(ev.slug)>>

\* lines 77-78: name and slug are taken while event_name is None
NextEvent(name, slug, ev) ==
    IF name = JNull THEN <<Get(ev.name), Get(ev.slug)>> ELSE <<name, slug>>

\* total_players taken from every response, without the test of line 81
NextTotalPlayers_EveryPage(p, old, total) == Or(total, JInt(0)).v

\* lines 81-82: total_players is taken on page 1
NextTotalPlayers(p, old, total) == IF p = 1 THEN Or(total, JInt(0)).v ELSE old

\* total_pages frozen after page 1
NextTotalPages_Frozen(p, old, tp) == IF p = 1 THEN Or(tp, JInt(1)).v ELSE old

\* line 83: total_pages is taken from every response
NextTotalPages(p, old, tp) == Or(tp, JInt(1)).v

\* the increment of line 98 left out
NextPage_Stuck(p) == p

\* line 98: page += 1
NextPage(p) == p + 1

\* how many nodes carry the boolean true
RECURSIVE CountTrue(_)
CountTrue(nodes) ==
    IF nodes = <<>> THEN 0
    ELSE (IF Head(nodes).isDisqualified = JBool(TRUE) THEN 1 ELSE 0) + CountTrue(Tail(nodes))

-----------------------------------------------------------------------------
(* The handler of the "Count DQs" button, cut at its calls of the service *)

\* the token check of lines 128-130 left out
TokenMissing_Never(tok) == FALSE

\* line 128: if not token
TokenMissing(tok) == tok = <<>>

\* the id kept only when the service sends it as a number
ResolvedId_NumbersOnly(ev) == IF ev.id.t = "int" THEN ev.id.v ELSE 0

\* line 60: int(ev["id"])
ResolvedId(ev) == PyInt(ev.id)

\* lines 165-168: an exception of the try block ends the run with st.error
Fail(exc) ==
    /\ pc' = "error"
    /\ ui' = ErrorUI(Caught(exc))
    /\ UNCHANGED <<result, fetch_locals, history>>

\* lines 63-70: fetch_counts is entered
EnterLoop ==
    /\ pc' = "loop"
    /\ page' = 1
    /\ total_pages' = 1
    /\ total_players' = 0
    /\ dq_count' = 0
    /\ dq_rows' = <<>>
    /\ event_name' = JNull
    /\ event_slug' = JNull

\* lines 127-139: the token check, the parse, and resolve_event_id up to its call
Click ==
    /\ pc = "idle"
    /\ \E tok \in Tokens, inp \in RunInputs :
        /\ token' = tok
        /\ event_input' = inp
        /\ IF TokenMissing(tok)
           THEN /\ ui' = ErrorUI("Provide an API token.")
                /\ pc' = "stopped"
                /\ UNCHANGED <<parsed, err, resolved, fetch_locals>>
           ELSE LET p == parse_event_input(inp)
                IN  /\ parsed' = p.parsed
                    /\ err' = p.err
                    /\ IF p.err # "None"
                       THEN /\ ui' = ErrorUI(p.err)
                            /\ pc' = "stopped"
                            /\ UNCHANGED <<resolved, fetch_locals>>
                       ELSE IF p.parsed.kind = "slug"
                       THEN /\ pc' = "resolve"
                            /\ UNCHANGED <<ui, resolved, fetch_locals>>
                       ELSE /\ event_id' = p.parsed.id
                            /\ ev_name' = JNull
                            /\ ev_slug' = JNull
                            /\ EnterLoop
                            /\ UNCHANGED ui
    /\ UNCHANGED <<result, requests, history, resolve_reply, failed_at>>

\* lines 56-60: the reply to resolve_event_id's call
ResolveReply ==
    /\ pc = "resolve"
    /\ \E resp \in ResolveResponses :
        LET out == gql(resp)
        IN  /\ requests' = Append(requests, ResolveRequest(parsed.slug))
            /\ resolve_reply' = [seen |-> TRUE, resp |-> resp]
            /\ failed_at' = IF IsFailure(resp) THEN Len(requests') ELSE failed_at
            /\ IF out.raised # "None"
               THEN Fail(out.raised) /\ UNCHANGED resolved
               ELSE IF ~Truthy(Get(out.data.event))
               THEN Fail("RuntimeError: Event not found for that URL.") /\ UNCHANGED resolved
               ELSE /\ event_id' = ResolvedId(out.data.event)
                    /\ ev_name' = out.data.event.name
                    /\ ev_slug' = out.data.event.slug
                    /\ EnterLoop
                    /\ UNCHANGED <<ui, result, history>>
    /\ UNCHANGED <<token, event_input, parsed, err>>

\* lines 72-98: one iteration of the loop, from its request to page += 1
FetchPage ==
    /\ pc = "loop"
    /\ LoopCond(page, total_pages)
    /\ \E resp \in EntrantsResponses :
        LET out == gql(resp)
        IN  /\ requests' = Append(requests, EntrantsRequest(event_id, page, PerPage))
            /\ failed_at' = IF IsFailure(resp) THEN Len(requests') ELSE failed_at
            /\ IF out.raised # "None"
               THEN Fail(out.raised)
               ELSE IF out.data.event = JNull
               THEN Fail(IF event_name = JNull THEN "AttributeError" ELSE "TypeError")
               ELSE LET ev   == out.data.event
                        info == ev.entrants.pageInfo
                        rows == PageRows(ev.entrants.nodes)
                        ne   == NextEvent(event_name, event_slug, ev)
                    IN  /\ event_name' = ne[1]
                        /\ event_slug' = ne[2]
                        /\ total_players' = NextTotalPlayers(page, total_players, info.total)
                        /\ total_pages' = NextTotalPages(page, total_pages, info.totalPages)
                        /\ dq_rows' = dq_rows \o rows
                        /\ dq_count' = dq_count + Len(rows)
                        /\ page' = NextPage(page)
                        /\ first_resp' = IF tp_log = <<>>
                                         THEN [seen |-> TRUE, name |-> ev.name, slug |-> ev.slug,
                                               total |-> info.total, totalPages |-> info.totalPages]
                                         ELSE first_resp
                        /\ last_pageInfo' = [seen |-> TRUE, total |-> info.total,
                                             totalPages |-> info.totalPages]
                        /\ tp_log' = Append(tp_log, info.totalPages)
                        /\ true_seen' = true_seen + CountTrue(ev.entrants.nodes)
                        /\ UNCHANGED <<pc, result, ui>>
    /\ UNCHANGED <<token, event_input, parsed, err, resolved, resolve_reply>>

\* lines 100-107 and 143-163: the loop is over, the result is returned and shown
FetchReturn ==
    /\ pc = "loop"
    /\ ~LoopCond(page, total_pages)
    /\ result' = [returned |-> TRUE, event_id |-> event_id, event_name |-> event_name,
                  event_slug |-> event_slug, total_players |-> total_players,
                  dq_count |-> dq_count, dq_rows |-> dq_rows]
    /\ ui' = Render(result', ev_name, ev_slug)
    /\ pc' = "rendered"
    /\ UNCHANGED <<token, event_input, parsed, err, resolved, fetch_locals, requests,
                   history, resolve_reply, failed_at>>

\* the script is run again from its top: a fresh page
Rerun ==
    /\ pc \in {"stopped", "error", "rendered"}
    /\ pc' = "idle"
    /\ token' = <<>>
    /\ event_input' = <<>>
    /\ parsed' = NoRef
    /\ err' = "None"
    /\ event_id' = 0
    /\ ev_name' = JNull
    /\ ev_slug' = JNull
    /\ page' = 1
    /\ total_pages' = 1
    /\ total_players' = 0
    /\ dq_count' = 0
    /\ dq_rows' = <<>>
    /\ event_name' = JNull
    /\ event_slug' = JNull
    /\ result' = NoResult
    /\ ui' = NoUI
    /\ requests' = <<>>
    /\ first_resp' = NoResp
    /\ last_pageInfo' = NoResp
    /\ tp_log' = <<>>
    /\ resolve_reply' = NoResp
    /\ failed_at' = 0
    /\ true_seen' = 0

Next == Click \/ ResolveReply \/ FetchPage \/ FetchReturn \/ Rerun

Spec == Init /\ [][Next]_vars

\* every call of the service returns, and the script runs on
FairSpec == Spec /\ WF_vars(Next)

-----------------------------------------------------------------------------
(* parse_event_input alone, over a larger set of inputs *)

Segments == {TOURNAMENT, <<"m", "y">> \o TOURNAMENT, EVENT, EVENT \o <<"s">>, Str_a}

RECURSIVE SegSeqs(_)
SegSeqs(n) ==
    IF n = 0 THEN {<<>>}
    ELSE LET shorter == SegSeqs(n - 1)
         IN  shorter \cup {<<g>> \o q : g \in Segments, q \in {r \in shorter : Len(r) = n - 1}}

Paths == {Join(q, <<"/">>) : q \in SegSeqs(MaxSegs) \ {<<>>}}

ParseInputs ==
    {pre \o path \o post :
        pre \in {<<>>, HTTPS_H, <<"/">>}, path \in Paths,
        post \in {<<>>, <<"/">>, <<"?", "q">>}}
      \cup {<<"7">>, <<" ", "4", "2", " ">>, <<"4", "a">>, <<>>, HTTPS_H}

ParseInit ==
    /\ pc = "parsing"
    /\ token = <<"t", "k">>
    /\ event_input \in ParseInputs
    /\ parsed = NoRef
    /\ err = "None"
    /\ event_id = 0
    /\ ev_name = JNull
    /\ ev_slug = JNull
    /\ page = 1
    /\ total_pages = 1
    /\ total_players = 0
    /\ dq_count = 0
    /\ dq_rows = <<>>
    /\ event_name = JNull
    /\ event_slug = JNull
    /\ result = NoResult
    /\ ui = NoUI
    /\ requests = <<>>
    /\ first_resp = NoResp
    /\ last_pageInfo = NoResp
    /\ tp_log = <<>>
    /\ resolve_reply = NoResp
    /\ failed_at = 0
    /\ true_seen = 0

\* line 132: parsed, err = parse_event_input(event_input)
ParseStep ==
    /\ pc = "parsing"
    /\ LET p == parse_event_input(event_input)
       IN  parsed' = p.parsed /\ err' = p.err
    /\ pc' = "parsed"
    /\ UNCHANGED <<token, event_input, resolved, fetch_locals, result, ui, requests,
                   history, resolve_reply, failed_at>>

ParseNext == ParseStep

ParseSpec == ParseInit /\ [][ParseNext]_vars

-----------------------------------------------------------------------------
(* What the claims speak of *)

EntrantsRequests == SelectSeq(requests, LAMBDA r : r.query = "EventEntrants")
ResolveRequests == SelectSeq(requests, LAMBDA r : r.query = "GetEventId")

\* a reported totalPages, null and 0 counting as 1
Reported(tp) == IF tp = JNull \/ tp = JInt(0) THEN 1 ELSE tp.v

\* a reported total, null counting as 0
ReportedTotal(total) == IF total = JNull THEN 0 ELSE total.v

\* the page requests so far are pages 1, 2, 3, ... in order
Consecutive ==
    \A i \in 1..Len(EntrantsRequests) : EntrantsRequests[i].variables.page = i

-----------------------------------------------------------------------------
(* C1, as the specification words it: the pages are requested consecutively *)
(* and, once fetch_counts has returned, as many pages were requested as the *)
(* response to page 1 reported in totalPages.                               *)
C1_StopsAtFirstPageTotal ==
    /\ Consecutive
    /\ result.returned =>
         Len(EntrantsRequests) = Reported(first_resp.totalPages)

(* C1, amended: the pages are requested consecutively from 1, and once      *)
(* fetch_counts has returned, the last page requested is the first page k   *)
(* whose own response reported totalPages <= k; every earlier response      *)
(* reported more pages than its index.                                      *)
C1_StopsAtLatestTotal ==
    /\ Consecutive
    /\ result.returned =>
         LET n == Len(EntrantsRequests)
         IN  /\ n >= 1
             /\ Len(tp_log) = n
             /\ Reported(tp_log[n]) <= n
             /\ \A k \in 1..(n - 1) : Reported(tp_log[k]) > k

\* page 1 reported two pages, page 2 reported three, and three were fetched
C1_Witness ==
    /\ result.returned
    /\ Len(EntrantsRequests) = 3
    /\ first_resp.totalPages = JInt(2)

(* C2: once the response to page 1 has been processed, total_players is the *)
(* total of that response (0 for null), whatever later responses carry, and *)
(* it is the total_players fetch_counts returns.                            *)
C2_TotalFromPageOne ==
    /\ first_resp.seen => total_players = ReportedTotal(first_resp.total)
    /\ ~first_resp.seen => total_players = 0
    /\ result.returned => result.total_players = ReportedTotal(first_resp.total)

\* a later page carried another total and nodes were scanned, after page 1 gave 3
C2_Witness ==
    /\ Len(tp_log) >= 2
    /\ first_resp.total = JInt(3)
    /\ last_pageInfo.total = JNull
    /\ dq_count > 0
    /\ total_players = 3

(* C3: the dq_count fetch_counts returns, and the number of rows, is the    *)
(* number of fetched nodes whose isDisqualified is the boolean true.        *)
C3_CountsExactlyTrue ==
    result.returned =>
        /\ result.dq_count = true_seen
        /\ Len(result.dq_rows) = true_seen

\* the page shows an error and nothing of a result
OnlyError ==
    /\ ui.error # "None"
    /\ ui = ErrorUI(ui.error)

(* C4: once the service has answered a call with an HTTP error status or an *)
(* errors list, the run is in its error state: fetch_counts has returned    *)
(* nothing, the page shows the error and no metrics, table or export, and   *)
(* the failed request is the last request of the run.                       *)
C4_FailureEndsRun ==
    failed_at > 0 =>
        /\ pc = "error"
        /\ result = NoResult
        /\ OnlyError
        /\ Len(requests) = failed_at

\* page 2 failed after page 1 had given rows
C4_Witness ==
    /\ pc = "error"
    /\ failed_at = 2
    /\ requests[2].query = "EventEntrants"
    /\ requests[2].variables.page = 2
    /\ dq_count > 0
    /\ dq_rows # <<>>

(* C5: a run whose token is empty or whose input the parser rejected has    *)
(* stopped with the error shown, and has posted no request at all.          *)
C5_RejectedBeforeNetwork ==
    (pc # "idle" /\ (token = <<>> \/ err # "None")) =>
        /\ pc = "stopped"
        /\ OnlyError
        /\ ui.error = (IF token = <<>> THEN "Provide an API token." ELSE InputError)
        /\ requests = <<>>
        /\ result = NoResult

\* a token was given and the input was neither an id nor an event URL
C5_Witness ==
    /\ pc = "stopped"
    /\ token # <<>>
    /\ event_input # <<>>
    /\ err = InputError

\* the segments of a path
Segs(path) == Split(path, "/")
HasSeg(path, g) == \E i \in 1..Len(Segs(path)) : Segs(path)[i] = g

\* the path from its first segment g on
FromSeg(path, g) ==
    LET q == Segs(path)
        i == CHOOSE j \in 1..Len(q) : q[j] = g /\ \A k \in 1..(j - 1) : q[k] # g
    IN  Join(SubSeq(q, i, Len(q)), <<"/">>)

(* C6: for an input that is not all digits, the parser returns a slug       *)
(* reference exactly when the URL's path has a tournament segment and an    *)
(* event segment, the slug being the path from the tournament segment on;   *)
(* for every other input it returns the input error and no reference.       *)
C6_SlugIffSegments ==
    (pc = "parsed" /\ ~AllDigits(Strip(event_input, Whitespace))) =>
        LET path == Strip(UrlPath(Strip(event_input, Whitespace)), {"/"})
            both == HasSeg(path, TOURNAMENT) /\ HasSeg(path, EVENT)
        IN  /\ (parsed.kind = "slug") <=> both
            /\ both => parsed = SlugRef(FromSeg(path, TOURNAMENT)) /\ err = "None"
            /\ ~both => parsed = NoRef /\ err = InputError

(* C7: for a slug reference the first request of the run is the one         *)
(* resolve-by-slug call, every page request carries the id that call        *)
(* returned as a number, and a null event ends the run with the not-found   *)
(* error and no page request; for a numeric reference there is no resolve   *)
(* call and every page request carries that number.                         *)
C7_ResolveThenFetch ==
    /\ parsed.kind = "slug" =>
        /\ Len(ResolveRequests) <= 1
        /\ requests # <<>> => requests[1] = ResolveRequest(parsed.slug)
        /\ pc \in {"loop", "rendered"} => Len(ResolveRequests) = 1
        /\ EntrantsRequests # <<>> =>
            /\ resolve_reply.seen
            /\ ~IsFailure(resolve_reply.resp)
            /\ resolve_reply.resp.data.event # JNull
        /\ \A i \in 1..Len(EntrantsRequests) :
               EntrantsRequests[i].variables.eventId
                   = PyInt(resolve_reply.resp.data.event.id)
        /\ (resolve_reply.seen /\ resolve_reply.resp = Data([event |-> JNull])) =>
            /\ pc = "error"
            /\ ui.error = "RuntimeError: Event not found for that URL."
            /\ EntrantsRequests = <<>>
    /\ parsed.kind = "id" =>
        /\ ResolveRequests = <<>>
        /\ \A i \in 1..Len(EntrantsRequests) :
               EntrantsRequests[i].variables.eventId = parsed.id
    /\ parsed.kind = "none" => requests = <<>>

\* the slug resolved to "999" and two pages were requested with 999
C7_Witness ==
    /\ parsed.kind = "slug"
    /\ resolve_reply.seen
    /\ Len(EntrantsRequests) = 2
    /\ EntrantsRequests[2].variables.eventId = 999
    /\ Len(requests) = 3

\* the latest response's page index, and what it reported
Answered == Len(tp_log)
LatestReported == Reported(tp_log[Len(tp_log)])

\* this step posts an entrants request
PostsPage ==
    /\ Len(requests') = Len(requests) + 1
    /\ requests'[Len(requests')].query = "EventEntrants"

(* C8: total_pages is the totalPages of the latest response (null and 0     *)
(* counting as 1), whichever page it answers; after the response to page k  *)
(* the loop goes on to request page k+1 exactly when k+1 is at most the     *)
(* totalPages that response reported, and every page requested after the    *)
(* first is that page k+1.                                                  *)
C8_BoundRereadEveryPage ==
    /\ [](tp_log # <<>> => total_pages = LatestReported)
    /\ []((pc = "loop" /\ tp_log # <<>>) =>
            /\ (ENABLED FetchPage) <=> (Answered + 1 <= LatestReported)
            /\ (ENABLED FetchReturn) <=> (Answered + 1 > LatestReported))
    /\ [][(PostsPage /\ tp_log # <<>>) =>
            /\ requests'[Len(requests')].variables.page = Answered + 1
            /\ Answered + 1 <= LatestReported]_vars

\* page 1 reported three pages, page 2 reported one, and the run ended after two
C8_Witness ==
    /\ result.returned
    /\ tp_log = <<JInt(3), JInt(1)>>
    /\ Len(EntrantsRequests) = 2

\* some response reported no more pages than its own index
SomeBoundReached == \E k \in 1..Len(tp_log) : Reported(tp_log[k]) <= k

(* C9: with every call returning, fetch_counts returns only after a         *)
(* response that reported totalPages <= its page index, and returns as soon *)
(* as one has; until then page, which grows by one with each response,      *)
(* stays within the bound and the next page is requested; against a service *)
(* whose totalPages is bounded the loop ends.                               *)
C9_EndsIffBoundReached ==
    /\ [](result.returned => SomeBoundReached)
    /\ [](pc = "loop" => page = Answered + 1)
    /\ []((pc = "loop" /\ SomeBoundReached) =>
            (~ENABLED FetchPage) /\ ENABLED FetchReturn)
    /\ []((pc = "loop" /\ ~SomeBoundReached) =>
            (ENABLED FetchPage) /\ ~ENABLED FetchReturn)
    /\ (pc = "loop") ~> (pc \in {"rendered", "error"})

\* the loop ran for as many pages as the service's largest totalPages
C9_Witness ==
    /\ result.returned
    /\ Len(EntrantsRequests) = MaxTotalPages
    /\ \A k \in 1..(MaxTotalPages - 1) : Reported(tp_log[k]) > k

(* C10, as the specification words it: after the response to page 1, the   *)
(* event_name and event_slug are those of that response, also when its name *)
(* is null, and they are what fetch_counts returns.                         *)
C10_FromPageOneOnly ==
    /\ first_resp.seen =>
         event_name = Get(first_resp.name) /\ event_slug = Get(first_resp.slug)
    /\ result.returned =>
         /\ result.event_name = Get(first_resp.name)
         /\ result.event_slug = Get(first_resp.slug)

(* C10, amended: event_name and event_slug are taken together from a        *)
(* response while event_name is still None; when the response to page 1     *)
(* carries a name they are that response's, and once event_name is set no   *)
(* later response changes either; fetch_counts returns them as they are.    *)
C10_CapturedOnceNamed ==
    /\ []((first_resp.seen /\ first_resp.name # JNull) =>
            event_name = first_resp.name /\ event_slug = first_resp.slug)
    /\ [][event_name # JNull =>
            \/ event_name' = event_name /\ event_slug' = event_slug
            \/ pc' = "idle"]_vars
    /\ [](result.returned =>
            result.event_name = event_name /\ result.event_slug = event_slug)

\* page 1 carried no name, and a later page gave the name and replaced the slug
C10_Witness ==
    /\ first_resp.seen
    /\ first_resp.name = JNull
    /\ event_name # JNull
    /\ event_slug # first_resp.slug
    /\ Answered >= 3

====
